---- MODULE Spec2Model ----
(***************************************************************************)
(* The request pipeline of POST /api/process (video upload, optional       *)
(* subtitle burn-in, optional B-roll overlay, one ffmpeg run, cleanup).    *)
(*                                                                         *)
(* A request is a process whose position `pc` is the await it is           *)
(* suspended at.  The file system, the clock read by Date.now(), the two   *)
(* B-roll collaborators, the clip download and the encoder are the         *)
(* environment: every result they can give is a nondeterministic choice.   *)
(* The 'end' and 'error' callbacks of the encoder are one action each: the *)
(* main flow of the request is suspended on the promise while they run.    *)
(***************************************************************************)
EXTENDS Integers, Sequences, FiniteSets, TLC

(* ------------------------------ bounds --------------------------------- *)

\* Largest value Date.now() takes in the model (the clock starts at 0).
MaxClock == 1

\* Largest number of 'progress' events one encoder run emits.
MaxProgress == 1

\* Largest number of encoder events of one run when events come in any order.
MaxEvents == 2

\* Largest number of blocks of a subtitle payload handed to the parser alone.
MaxBlocks == 2

\* How many times a subtitle payload is parsed (each time but the first after
\* the segments were serialized again).
MaxParses == 2

\* How many times in a row a timecode is normalized.
MaxFormats == 2

\* How many times a file is chosen on the page.
MaxSelects == 2

\* How many times caption generation is started on the page.
MaxCaptions == 2

\* How many times the video is sent to the server from the page.
MaxUploads == 2

\* How many caption segments a transcript is built from.
MaxSegments == 2

\* How many lines are appended to a subtitle payload.
MaxTrailing == 2

(* ------------------------------ inputs --------------------------------- *)

Requests == {1, 2}

\* The request every single-request specification animates.
R1 == CHOOSE r \in Requests : \A q \in Requests : r <= q

NULL == ""

Names == {"a.mp4", "b.mp4"}

\* The frame size of the uploaded videos: a.mp4 is 1280x720, b.mp4 1920x1080.
FrameOf(name) ==
  IF name = "a.mp4" THEN [width |-> 1280, height |-> 720]
  ELSE [width |-> 1920, height |-> 1080]

\* The 'fontName' values a request may carry, as their characters: a font of
\* the page's list, a name no list holds, a name holding a colon.
FontNames ==
  { << "R", "o", "b", "o", "t", "o" >>, << "C", "o", "m", "i", "c" >>,
    << "M", "o", "n", "o", ":", "9" >> }

\* The string of a sequence of characters.
RECURSIVE Text(_)
Text(cs) == IF cs = << >> THEN "" ELSE cs[1] \o Text(Tail(cs))

Fonts == {Text(cs) : cs \in FontNames}

\* A timecode is the sequence of its characters. "00:00:0s", s one digit:
Short(s) == << "0", "0", ":", "0", "0", ":", "0", ToString(s) >>

\* "00:00:0s,000"
Full(s) == Short(s) \o << ",", "0", "0", "0" >>

\* One block of a subtitle payload: index line, timecode line, text lines.
\* arrow = FALSE is a block without a timecode line (no "-->" separator);
\* start and end are what the timecode line holds on either side of " --> ".
Block(i, ok, s, e, t) == [id |-> i, arrow |-> ok, start |-> s, end |-> e, text |-> t]

NoSrt == << >>

SrtValid ==
  << Block(1, TRUE, Full(0), Full(2), << "sunset" >>),
     Block(2, TRUE, Full(2), Full(4), << "beach" >>) >>

SrtMissingArrow ==
  << Block(1, TRUE, Full(0), Full(2), << "sunset" >>),
     Block(2, FALSE, Full(2), Full(4), << "beach" >>) >>

\* The values of the 'addBroll' field: what the page sends ("true", "false"),
\* another spelling, and the field left out.
AddBrollValues == {"true", "false", "TRUE", NULL}

\* The multipart fields of a request: formData.get('video' | 'srtContent' |
\* 'fontName' | 'addBroll').
AllInputs ==
  [file : BOOLEAN, name : Names, srtContent : {NoSrt, SrtValid, SrtMissingArrow},
   fontName : Fonts, addBroll : AddBrollValues]

\* The fields two concurrent requests are given.
ConcInputs ==
  [file : {TRUE}, name : Names, srtContent : {SrtValid},
   fontName : {"Roboto"}, addBroll : {"true", "false"}]

NoInput ==
  [file |-> FALSE, name |-> "", srtContent |-> NoSrt, fontName |-> "", addBroll |-> NULL]

\* The subtitle payloads handed to the parser alone: up to MaxBlocks blocks,
\* with and without a timecode line, timecodes with and without milliseconds,
\* ordered and not, text of one line and of two.
TimeStrs == {Full(1), Full(3), Short(3)}

Blocks ==
  {Block(i, ok, s, e, t) : i \in {1}, ok \in BOOLEAN, s \in TimeStrs, e \in TimeStrs,
                            t \in {<< "sun" >>, << "sun", "set" >>}}

Payloads == UNION {[1..n -> Blocks] : n \in 0..MaxBlocks}

\* The string of n copies of the character c.
RECURSIVE Chars(_, _)
Chars(c, n) ==
  IF n = 0 THEN ""
  ELSE IF n % 2 = 1 THEN c \o Chars(c, n - 1)
  ELSE LET half == Chars(c, n \div 2) IN half \o half

\* Caption texts: empty, one character, and lengths that put the joined text
\* of two captions under, at and over 4000 characters.
CaptionTexts == {Chars(c, n) : c \in {"a", "b"}, n \in {0, 1, 1999, 2000, 4001}}

\* The segment lists handed to the keyword extraction alone.
SegmentLists ==
  UNION {[1..n -> {[id |-> 1, start_time |-> Full(0), end_time |-> Full(2), text |-> t] :
                     t \in CaptionTexts}] : n \in 0..MaxSegments}

\* The lines appended to a payload after its last line: empty lines and lines
\* holding white space only.
TrailingLines == UNION {[1..n -> {"", " "}] : n \in 0..MaxTrailing}

\* The timecodes handed to the normalization alone: HH:MM:SS and HH:MM:SS,mmm.
TimeDigits == {"0", "5"}

ShortTimecodes ==
  {<< a, b, ":", c, d, ":", e, f >> : a \in {"0"}, b \in TimeDigits, c \in TimeDigits,
                                      d \in TimeDigits, e \in TimeDigits, f \in TimeDigits}

ValidTimecodes ==
  ShortTimecodes
    \cup {t \o << ",", x, y, z >> : t \in ShortTimecodes, x \in TimeDigits, y \in {"0"},
                                     z \in TimeDigits}

(* ------------------------------ values --------------------------------- *)

\* What a file holds: who wrote it, what it is, and whether the write ended.
Content(r, k, c) == [by |-> r, kind |-> k, complete |-> c]

NoBytes == Content(0, "none", FALSE)

uploadsDir == "uploads"

outputDir == "output"

\* `${uniquePrefix}-${file.name}`
Filename(prefix, name) == ToString(prefix) \o "-" \o name

InputPathOf(prefix, name) == uploadsDir \o "/" \o Filename(prefix, name)

OutputPathOf(prefix, name) == outputDir \o "/" \o "processed-" \o Filename(prefix, name)

SrtPathOf(prefix) == uploadsDir \o "/" \o ToString(prefix) \o ".srt"

BrollPathOf(prefix) == uploadsDir \o "/" \o ToString(prefix) \o "-broll.mp4"

\* writeFile / the encoder's -y: the file at p now holds c.
WriteAt(d, p, c) == [q \in (DOMAIN d) \cup {p} |-> IF q = p THEN c ELSE d[q]]

\* unlink of an existing file.
RemoveAt(d, p) == [q \in (DOMAIN d) \ {p} |-> d[q]]

EmptyDisk == [q \in {} |-> NoBytes]

OkResponse(bytes, name) ==
  [status |-> 200, bytes |-> bytes, error |-> "", filename |-> "processed-" \o name]

ErrResponse(status, msg) ==
  [status |-> status, bytes |-> NoBytes, error |-> msg, filename |-> ""]

\* `return NextResponse.json({ error: 'No file uploaded' }, { status: 400 })`
MissingFileAsServerError == ErrResponse(500, "No file uploaded")

MissingFileResponse == ErrResponse(400, "No file uploaded")

ServerErrorResponse(msg) == ErrResponse(500, "Server error: " \o msg)

ReadFailedResponse == ErrResponse(500, "Processing completed but failed to read/clean up files")

EncoderErrorResponse(msg) == ErrResponse(500, "Video processing failed: " \o msg)

\* resolve(x) of `new Promise<NextResponse>((resolve) => ...)`, and `return x`
\* of the handler: the caller gets the first response and no other.
ResolveAgain(delivered, resp) == Append(delivered, resp)

Resolve(delivered, resp) == IF delivered = << >> THEN << resp >> ELSE delivered

Digits == {"0", "1", "2", "3", "4", "5", "6", "7", "8", "9"}

\* \d{2}:\d{2}:\d{2},\d{3}
MatchesTimecode(t) ==
  /\ Len(t) = 12
  /\ \A i \in {1, 2, 4, 5, 7, 8, 10, 11, 12} : t[i] \in Digits
  /\ t[3] = ":" /\ t[6] = ":" /\ t[9] = ","

\* match[4].replace(/\n/g, ' ')
RECURSIVE JoinLines(_)
JoinLines(lines) ==
  IF lines = << >> THEN ""
  ELSE IF Len(lines) = 1 THEN lines[1]
  ELSE lines[1] \o " " \o JoinLines(Tail(lines))

\* parseSrt: the blocks the pattern matches, in order; a block the pattern does
\* not match (no timecode line, a timecode not of the form HH:MM:SS,mmm) is
\* skipped. Start and end are taken as they are, never compared.
RECURSIVE parseSrt(_)
parseSrt(srtContent) ==
  IF srtContent = << >> THEN << >>
  ELSE LET b == Head(srtContent)
           rest == parseSrt(Tail(srtContent))
       IN IF b.arrow /\ MatchesTimecode(b.start) /\ MatchesTimecode(b.end)
            THEN << [id |-> b.id, start_time |-> b.start, end_time |-> b.end,
                     text |-> JoinLines(b.text)] >> \o rest
            ELSE rest

\* The lines up to the first empty line.
RECURSIVE LinesBeforeBlank(_)
LinesBeforeBlank(lines) ==
  IF lines = << >> \/ Head(lines) = "" THEN << >>
  ELSE << Head(lines) >> \o LinesBeforeBlank(Tail(lines))

\* A payload that ends with the last text line of its last block, with lines
\* appended, as the pattern of parseSrt reads it: the text group
\* `[\s\S]*?(?=\n\n|\n*$)` runs to the first empty line or to the newlines that
\* end the payload, so the appended lines before the first empty one are text
\* lines of the last block; those after it hold no index and timecode line and
\* match nothing.
AppendLines(srtContent, lines) ==
  IF srtContent = << >> THEN << >>
  ELSE [srtContent EXCEPT ![Len(srtContent)].text = @ \o LinesBeforeBlank(lines)]

\* formatSRTTime with the test of the comma left out.
formatSRTTimeAlways(timeStr) == timeStr \o << ",", "0", "0", "0" >>

\* formatSRTTime returning its argument.
formatSRTTimeNever(timeStr) == timeStr

\* formatSRTTime: `if (timeStr.includes(',')) return timeStr; return timeStr + ',000'`
formatSRTTime(timeStr) ==
  IF \E i \in 1..Len(timeStr) : timeStr[i] = "," THEN timeStr
  ELSE timeStr \o << ",", "0", "0", "0" >>

\* generateSRT: one block per segment: its position, "start --> end" with both
\* times normalized, its text on one line.
generateSRT(segments) ==
  [i \in 1..Len(segments) |->
     Block(i, TRUE, formatSRTTime(segments[i].start_time),
           formatSRTTime(segments[i].end_time), << segments[i].text >>)]

(* --------------------------- collaborators ----------------------------- *)

\* segments.map(s => s.text).join(' ')
RECURSIVE JoinTexts(_)
JoinTexts(segments) ==
  IF segments = << >> THEN ""
  ELSE IF Len(segments) = 1 THEN segments[1].text
  ELSE segments[1].text \o " " \o JoinTexts(Tail(segments))

\* s.slice(0, n)
Slice(s, n) == IF Len(s) <= n THEN s ELSE SubSeq(s, 1, n)

\* The transcript put into the prompt without the slice.
TranscriptUncut(segments) == JoinTexts(segments)

\* `${transcript.slice(0, 4000)}`: the transcript the prompt carries.
Transcript(segments) == Slice(JoinTexts(segments), 4000)

\* What the keyword model can answer: the call throws, the text holds no
\* bracketed array (json = FALSE), it holds one that JSON.parse refuses
\* (valid = FALSE, `keywords` being what stands between the brackets), or it
\* holds the array `keywords`.
GeminiAnswers ==
  { [throws |-> TRUE, json |-> FALSE, valid |-> FALSE, keywords |-> << >>],
    [throws |-> FALSE, json |-> FALSE, valid |-> FALSE, keywords |-> << >>],
    [throws |-> FALSE, json |-> TRUE, valid |-> FALSE, keywords |-> << "sunset" >>],
    [throws |-> FALSE, json |-> TRUE, valid |-> TRUE, keywords |-> << >>],
    [throws |-> FALSE, json |-> TRUE, valid |-> TRUE, keywords |-> << "sunset" >>],
    [throws |-> FALSE, json |-> TRUE, valid |-> TRUE, keywords |-> << "sunset", "beach" >>] }

\* The answer gives no keyword list: the call threw, or its text has no array
\* that parses.
Unusable(answer) == answer.throws \/ ~answer.json \/ ~answer.valid

\* extractKeywordsFromTranscript without its try/catch around JSON.parse.
extractKeywordsWithoutCatch(segments, answer) ==
  IF answer.json THEN answer.keywords ELSE << >>

\* extractKeywordsFromTranscript: the array of the answer, [] when the call
\* throws or JSON.parse throws (catch) or no array is found.
extractKeywordsFromTranscript(segments, answer) ==
  IF answer.throws THEN << >>
  ELSE IF answer.json THEN (IF answer.valid THEN answer.keywords ELSE << >>)
  ELSE << >>

VideoFile(q, l) == [quality |-> q, link |-> l]

\* What the stock-footage search can answer for a keyword.
PexelsAnswers(keyword) ==
  { [throws |-> TRUE, videos |-> << >>],
    [throws |-> FALSE, videos |-> << >>],
    [throws |-> FALSE, videos |-> << [video_files |-> << >>] >>],
    [throws |-> FALSE,
     videos |-> << [video_files |-> << VideoFile("sd", "https://clips/" \o keyword \o "/sd"),
                                       VideoFile("hd", "https://clips/" \o keyword \o "/hd") >>] >>] }

\* video_files.find(f => f.quality === 'hd') || video_files[0]
BestVideoFile(files) ==
  IF \E i \in 1..Len(files) : files[i].quality = "hd"
    THEN files[CHOOSE i \in 1..Len(files) :
                 /\ files[i].quality = "hd"
                 /\ \A j \in 1..(i - 1) : files[j].quality # "hd"]
    ELSE files[1]

\* findBrollVideo: the link of the best file of the first video, null when the
\* search throws (catch), finds no video, or the video has no file.
findBrollVideo(keyword, answer) ==
  IF answer.throws THEN NULL
  ELSE IF Len(answer.videos) > 0 /\ Len(answer.videos[1].video_files) > 0
    THEN BestVideoFile(answer.videos[1].video_files).link
  ELSE NULL

\* The search given the last keyword of the list.
LastKeyword(kws) == kws[Len(kws)]

\* `keywords[0]`, the keyword the search is given.
FirstKeyword(kws) == kws[1]

\* `brollPath = null` in the catch of the download.
BrollPathAfterError(path) == NULL

(* ------------------------------ encoder -------------------------------- *)

Stage(k, ins, f, out) == [kind |-> k, ins |-> ins, filter |-> f, out |-> out]

NoCommand ==
  [inputs |-> << >>, complexFilter |-> << >>, map |-> "", outputOptions |-> << >>,
   output |-> NULL]

\* The stream label handed to complexFilter with its brackets.
KeepBrackets(label) == label

\* videoStream.replace(/\[|\]/g, '')
StripBrackets(label) ==
  CASE label = "[0:v]" -> "0:v"
    [] label = "[video_out]" -> "video_out"
    [] label = "[video_final]" -> "video_final"
    [] OTHER -> label

\* The font registry of the handler that has one (app/api/process/route.ts):
\* font name -> font file.
fontMap ==
  [f \in {"Roboto", "Lato", "DejaVu Sans"} |->
     CASE f = "Roboto" -> "public/fonts/Roboto-Regular.ttf"
       [] f = "Lato" -> "public/fonts/Lato-Regular.ttf"
       [] f = "DejaVu Sans" -> "/usr/share/fonts/truetype/dejavu/DejaVuSans.ttf"]

\* `subtitles=${srtPath}:fontsdir=${escapedFontsDir}:${style}`, the style naming
\* the font by the 'fontName' field as it came.
SubtitlesFilter(sPath, fontName) ==
  "subtitles=" \o sPath \o ":fontsdir=public/fonts:force_style='FontName=" \o fontName
    \o ",FontSize=16,PrimaryColour=&Hffffff,OutlineColour=&H000000,Outline=2,Shadow=1'"

\* The subtitle burn reading the source video whether a clip is overlaid or not.
VideoStreamOfSource(bPath) == "[0:v]"

\* `videoStream` after `if (brollPath) { ...; videoStream = '[video_out]' }`
VideoStreamAfterOverlay(bPath) == IF bPath # NULL THEN "[video_out]" ELSE "[0:v]"

\* The fluent-ffmpeg command the promise executor builds before .save().
BuildCommand(inPath, outPath, sPath, bPath, fontName) ==
  LET overlay ==
        IF bPath # NULL
          THEN << Stage("scale", << "[1:v]" >>, "scale=1280:720,setsar=1", "[broll_scaled]"),
                  Stage("overlay", << "[0:v]", "[broll_scaled]" >>,
                        "overlay=0:0:enable='between(t,5,10)'", "[video_out]") >>
          ELSE << >>
      stream1 == VideoStreamAfterOverlay(bPath)
      subs ==
        IF sPath # NULL
          THEN << Stage("subtitles", << stream1 >>, SubtitlesFilter(sPath, fontName),
                        "[video_final]") >>
          ELSE << >>
      videoStream == IF sPath # NULL THEN "[video_final]" ELSE stream1
      complexFilter == overlay \o subs
  IN [inputs |-> << inPath >> \o (IF bPath # NULL THEN << bPath >> ELSE << >>),
      complexFilter |-> complexFilter,
      map |-> IF Len(complexFilter) > 0 THEN StripBrackets(videoStream) ELSE "",
      outputOptions |-> << "-c:a", "copy", "-c:v", "libx264", "-vsync", "cfr", "-crf", "28",
                           "-preset", "ultrafast", "-movflags", "+faststart" >>,
      output |-> outPath]

(* ------------------------------ cleanup -------------------------------- *)

\* `await unlink(p)` for the paths of ps, in order: the call on a missing file
\* throws (ENOENT), the k-th call throws when k > 0 (any other fs error), and
\* the first call that throws ends the sequence.
RECURSIVE UnlinkAll(_, _, _)
UnlinkAll(d, ps, k) ==
  IF ps = << >> THEN [disk |-> d, ok |-> TRUE, failed |-> NULL]
  ELSE IF k = 1 \/ Head(ps) \notin DOMAIN d THEN [disk |-> d, ok |-> FALSE, failed |-> Head(ps)]
  ELSE UnlinkAll(RemoveAt(d, Head(ps)), Tail(ps), k - 1)

Opt(cond, p) == IF cond THEN << p >> ELSE << >>

\* The unlink calls of the 'end' callback.
EndPaths(inPath, outPath, sPath, bPath) ==
  << inPath, outPath >> \o Opt(sPath # NULL, sPath) \o Opt(bPath # NULL, bPath)

\* The unlink calls of the 'error' callback, each but the first behind existsSync.
ErrorPaths(d, inPath, outPath, sPath, bPath) ==
  << inPath >> \o Opt(outPath \in DOMAIN d, outPath)
    \o Opt(sPath # NULL /\ sPath \in DOMAIN d, sPath)
    \o Opt(bPath # NULL /\ bPath \in DOMAIN d, bPath)

\* The 'end' callback deleting the files before it reads the output.
OnEndUnlinkFirst(d, inPath, outPath, sPath, bPath, name, k) ==
  LET u == UnlinkAll(d, EndPaths(inPath, outPath, sPath, bPath), k - 1)
      readOk == u.ok /\ outPath \in DOMAIN u.disk /\ k # 1
  IN IF readOk
       THEN [disk |-> u.disk, resp |-> OkResponse(u.disk[outPath], name), cleanup |-> 1,
             read |-> u.disk[outPath], failed |-> NULL]
     ELSE [disk |-> u.disk, resp |-> ReadFailedResponse, cleanup |-> 1, read |-> NoBytes,
           failed |-> u.failed]

\* The 'end' callback on disk d. k = 1: readFile throws; k > 1: the (k-1)-th
\* unlink throws; k = 0: no fs error but ENOENT.
OnEnd(d, inPath, outPath, sPath, bPath, name, k) ==
  LET readOk == outPath \in DOMAIN d /\ k # 1
      u == UnlinkAll(d, EndPaths(inPath, outPath, sPath, bPath), k - 1)
  IN IF ~readOk
       THEN [disk |-> d, resp |-> ReadFailedResponse, cleanup |-> 0, read |-> NoBytes,
             failed |-> NULL]
     ELSE IF ~u.ok
       THEN [disk |-> u.disk, resp |-> ReadFailedResponse, cleanup |-> 1,
             read |-> d[outPath], failed |-> u.failed]
     ELSE [disk |-> u.disk, resp |-> OkResponse(d[outPath], name), cleanup |-> 1,
           read |-> d[outPath], failed |-> NULL]

\* The 'error' callback on disk d; the k-th unlink throws when k > 0.
OnError(d, inPath, outPath, sPath, bPath, msg, k) ==
  LET u == UnlinkAll(d, ErrorPaths(d, inPath, outPath, sPath, bPath), k)
  IN [disk |-> u.disk, resp |-> EncoderErrorResponse(msg), cleanup |-> 1, read |-> NoBytes,
      failed |-> u.failed]

(* ------------------------------- page ---------------------------------- *)

\* validateVideoFile: the limit on file.size.
maxSize == 1024 * 1024 * 1024

allowedTypes ==
  { "video/mp4", "video/webm", "video/avi", "video/mov", "video/quicktime",
    "video/x-msvideo", "video/mpeg", "video/mpg", "video/x-flv", "video/wmv",
    "video/3gpp" }

\* validateVideoDuration: the limit on the duration, in seconds.
maxDurationSeconds == 30 * 60

\* The files the user may choose: of a listed type or not, at the size limit or
\* a byte over it, at the duration limit or a second over it.
Files ==
  [type : {"video/mp4", "video/x-matroska"}, size : {1073741824, 1073741825},
   duration : {1800, 1801}]

NoFile == [type |-> "", size |-> 0, duration |-> 0]

NoInfo == [duration |-> 0, size |-> 0, format |-> ""]

NoResult == [of |-> NoFile]

NoValidation == [file |-> NoFile, valid |-> FALSE, error |-> NULL]

NoDurationValidation == [duration |-> 0, valid |-> FALSE, error |-> NULL]

validateVideoFile(file) ==
  IF file.type \notin allowedTypes
    THEN [valid |-> FALSE, error |-> "Unsupported file type"]
  ELSE IF file.size > maxSize
    THEN [valid |-> FALSE, error |-> "File too large"]
  ELSE [valid |-> TRUE, error |-> NULL]

validateVideoDuration(duration) ==
  IF duration > maxDurationSeconds
    THEN [valid |-> FALSE, error |-> "Video too long"]
  ELSE [valid |-> TRUE, error |-> NULL]

\* The VideoInfo getVideoInfo resolves with.
getVideoInfo(file) == [duration |-> file.duration, size |-> file.size, format |-> file.type]

\* `steps` of processVideoWithServer.
InitialSteps ==
  << [id |-> "upload", status |-> "pending"], [id |-> "process", status |-> "pending"],
     [id |-> "complete", status |-> "pending"] >>

\* updateStep(id, { status }) applied to the steps.
updateStep(steps, id, status) ==
  [i \in 1..Len(steps) |->
     IF steps[i].id = id THEN [steps[i] EXCEPT !.status = status] ELSE steps[i]]

\* The catch of processVideoWithServer: `processingSteps.find(step =>
\* step.status === 'processing')` reads the processingSteps of the render the
\* handler was created in (captured), and updateStep is applied to the steps of
\* the page as they are now.
CatchSteps(steps, captured) ==
  LET found == {i \in 1..Len(captured) : captured[i].status = "processing"} IN
    IF found = {} THEN steps
    ELSE updateStep(steps, captured[CHOOSE i \in found : \A j \in found : i <= j].id, "error")

\* The TranscriptionResult transcribeVideoWithGemini resolves with.
transcribeVideoWithGemini(file) == [of |-> file]

(* ------------------------------- state --------------------------------- *)

VARIABLES
  now,            \* the value Date.now() returns
  disk,           \* the files of uploads/ and output/: path -> content
  pc,             \* where each request is suspended
  req,            \* the form fields of each request
  uniquePrefix,   \* `${Date.now()}` of the request
  inputPath, outputPath, srtPath, brollPath,
  keywords,       \* the result of extractKeywordsFromTranscript
  brollVideoUrl,  \* the result of findBrollVideo
  command,        \* the ffmpeg command handed to .save()
  enc,            \* the encoder run of the request
  progress,       \* 'progress' events seen
  events,         \* encoder events seen, counted when events come in any order
  delivered,      \* the responses the caller received, in order
  cleanupRuns,    \* how many times an unlink sequence of the request was entered
  encStarts,      \* how many times .save() spawned the encoder
  lookups,        \* the keywords findBrollVideo was asked for
  faults,         \* the failures the environment injected into the request
  degrade,        \* what went wrong in the B-roll steps ("" when nothing did)
  outputRead,     \* what readFile(outputPath) returned
  unlinkFailed,   \* the paths whose unlink threw
  called,         \* the collaborator calls of the request, in order
  connected,      \* whether the caller of the request is still there
  payload,        \* the subtitle text handed to parseSrt
  parsed,         \* the segment lists parseSrt returned, in order
  stage,          \* what is done next with the subtitle text
  times,          \* a timecode and its successive normalizations
  transcript,     \* the transcript text put into the keyword prompt
  trailing,       \* the lines appended to the subtitle text
  selects,        \* how many files were chosen so far
  selectedFile, videoInfo, error, transcriptionResult, isTranscribing,
  loading,        \* the `await Promise.all([getVideoInfo, createVideoThumbnail])` pending
  transcribing,   \* the `await transcribeVideoWithGemini` pending
  transcribed,    \* the files transcribeVideoWithGemini was called with, in order
  validation,     \* the file validateVideoFile was given last, and its result
  durationValidation, \* the duration validateVideoDuration was given last, and its result
  isLoading, processingSteps, processedVideoUrl,
  uploading,      \* the processVideoWithServer calls suspended at an await
  uploaded        \* the video and captions of every form sent to /api/process

locals == << req, uniquePrefix, inputPath, outputPath, srtPath, brollPath, keywords,
             brollVideoUrl >>

encoder == << command, enc, progress, events, encStarts >>

history == << cleanupRuns, lookups, faults, degrade, outputRead, unlinkFailed, called >>

\* The state of the subtitle functions run on their own.
text == << payload, parsed, stage, times, transcript, trailing >>

pipeline == << now, disk, pc, delivered, locals, encoder, history, connected >>

\* The state of the page (components/VideoProcessor.tsx), with the calls it
\* has in flight.
server == << isLoading, processingSteps, processedVideoUrl, uploading, uploaded >>

page == << selects, selectedFile, videoInfo, error, transcriptionResult, isTranscribing,
          loading, transcribing, transcribed, validation, durationValidation, server >>

vars == << pipeline, text, page >>

\* No request has arrived.
NoRequest ==
  /\ now = 0
  /\ disk = EmptyDisk
  /\ pc = [r \in Requests |-> "idle"]
  /\ req = [r \in Requests |-> NoInput]
  /\ uniquePrefix = [r \in Requests |-> 0]
  /\ inputPath = [r \in Requests |-> NULL]
  /\ outputPath = [r \in Requests |-> NULL]
  /\ srtPath = [r \in Requests |-> NULL]
  /\ brollPath = [r \in Requests |-> NULL]
  /\ keywords = [r \in Requests |-> << >>]
  /\ brollVideoUrl = [r \in Requests |-> NULL]
  /\ command = [r \in Requests |-> NoCommand]
  /\ enc = [r \in Requests |-> "none"]
  /\ progress = [r \in Requests |-> 0]
  /\ events = [r \in Requests |-> 0]
  /\ delivered = [r \in Requests |-> << >>]
  /\ cleanupRuns = [r \in Requests |-> 0]
  /\ encStarts = [r \in Requests |-> 0]
  /\ lookups = [r \in Requests |-> << >>]
  /\ faults = [r \in Requests |-> {}]
  /\ degrade = [r \in Requests |-> ""]
  /\ outputRead = [r \in Requests |-> NoBytes]
  /\ unlinkFailed = [r \in Requests |-> {}]
  /\ called = [r \in Requests |-> << >>]
  /\ connected = [r \in Requests |-> TRUE]

\* No subtitle function is run on its own.
NoText ==
  /\ payload = << >>
  /\ parsed = << >>
  /\ stage = "off"
  /\ times = << >>
  /\ transcript = ""
  /\ trailing = << >>

\* The page as it is mounted: no file chosen, nothing in flight.
NoPage ==
  /\ selects = 0
  /\ selectedFile = NoFile
  /\ videoInfo = NoInfo
  /\ error = NULL
  /\ transcriptionResult = NoResult
  /\ isTranscribing = FALSE
  /\ loading = {}
  /\ transcribing = {}
  /\ transcribed = << >>
  /\ validation = NoValidation
  /\ durationValidation = NoDurationValidation
  /\ isLoading = FALSE
  /\ processingSteps = << >>
  /\ processedVideoUrl = NULL
  /\ uploading = {}
  /\ uploaded = << >>

Init == NoRequest /\ NoText /\ NoPage

\* The clock moves between two reads of Date.now(), or it does not.
Tick ==
  /\ now < MaxClock
  /\ now' = now + 1
  /\ UNCHANGED << disk, pc, delivered, locals, encoder, history, connected, text, page >>

\* The environment of a run of the model: the form fields requests are given,
\* whether the encoder emits its events in any order, and whether the file
\* system fails calls other than an unlink or a read of a missing file.
Env(inputs, anyOrder, fsFaults) ==
  [inputs |-> inputs, anyOrder |-> anyOrder, fsFaults |-> fsFaults]

\* The results of a call to the file system: it succeeds or it throws.
FsResults(env) == IF env.fsFaults THEN BOOLEAN ELSE {TRUE}

\* Which call of a callback throws: none (0) or the k-th of n.
FsFaultAt(env, n) == IF env.fsFaults THEN 0..n ELSE {0}

\* AfterStaging with the field tested for presence, not compared with 'true'.
AfterStagingAnyValue(in) ==
  IF in.addBroll # NULL /\ in.srtContent # NoSrt THEN "brollKeywords" ELSE "build"

\* `addBroll = formData.get('addBroll') === 'true'` and `if (addBroll &&
\* srtContent)`: where the request goes after staging.
AfterStaging(in) ==
  IF in.addBroll = "true" /\ in.srtContent # NoSrt THEN "brollKeywords" ELSE "build"

\* A throw that is swallowed: the handler goes on to the encoder.
ThrowSwallowed(r, msg, fault) ==
  /\ delivered' = delivered
  /\ pc' = [pc EXCEPT ![r] = "build"]
  /\ faults' = [faults EXCEPT ![r] = @ \cup {fault}]

\* The catch of the handler: `return NextResponse.json({error: 'Server error: ...'}, 500)`.
Throw(r, msg, fault) ==
  /\ delivered' = [delivered EXCEPT ![r] = Resolve(@, ServerErrorResponse(msg))]
  /\ pc' = [pc EXCEPT ![r] = "done"]
  /\ faults' = [faults EXCEPT ![r] = @ \cup {fault}]

\* The handler without the check of the 'video' field.
ReceiveWithoutCheck(r, env) ==
  /\ pc[r] = "idle"
  /\ \E in \in env.inputs, dirsOk \in FsResults(env) :
       /\ req' = [req EXCEPT ![r] = in]
       /\ IF ~dirsOk
            THEN Throw(r, "mkdir", "dirs")
          ELSE /\ pc' = [pc EXCEPT ![r] = "staging"]
               /\ UNCHANGED << delivered, faults >>
  /\ UNCHANGED << now, connected, text, page, disk, uniquePrefix, inputPath, outputPath, srtPath, brollPath,
                  keywords, brollVideoUrl, encoder, cleanupRuns, lookups, called, degrade,
                  outputRead, unlinkFailed >>

\* ensureDirectories, request.formData() and the check of the 'video' field.
Receive(r, env) ==
  /\ pc[r] = "idle"
  /\ \E in \in env.inputs, dirsOk \in FsResults(env) :
       /\ req' = [req EXCEPT ![r] = in]
       /\ IF ~dirsOk
            THEN Throw(r, "mkdir", "dirs")
          ELSE IF ~in.file
            THEN /\ delivered' = [delivered EXCEPT ![r] = Resolve(@, MissingFileResponse)]
                 /\ pc' = [pc EXCEPT ![r] = "done"]
                 /\ UNCHANGED faults
          ELSE /\ pc' = [pc EXCEPT ![r] = "staging"]
               /\ UNCHANGED << delivered, faults >>
  /\ UNCHANGED << now, connected, text, page, disk, uniquePrefix, inputPath, outputPath, srtPath, brollPath,
                  keywords, brollVideoUrl, encoder, cleanupRuns, lookups, called, degrade,
                  outputRead, unlinkFailed >>

\* uniquePrefix = `${Date.now()}`, the paths, and `await writeFile(inputPath, buffer)`.
\* A write that fails may leave the file it opened.
StageInput(r, env) ==
  /\ pc[r] = "staging"
  /\ LET p == InputPathOf(now, req[r].name) IN
       /\ uniquePrefix' = [uniquePrefix EXCEPT ![r] = now]
       /\ inputPath' = [inputPath EXCEPT ![r] = p]
       /\ outputPath' = [outputPath EXCEPT ![r] = OutputPathOf(now, req[r].name)]
       /\ \E ok \in FsResults(env), left \in BOOLEAN :
            IF ok
              THEN /\ left
                   /\ disk' = WriteAt(disk, p, Content(r, "video", TRUE))
                   /\ pc' = [pc EXCEPT ![r] =
                               IF req[r].srtContent # NoSrt THEN "writeSrt"
                               ELSE AfterStaging(req[r])]
                   /\ UNCHANGED << delivered, faults >>
              ELSE /\ disk' = IF left THEN WriteAt(disk, p, Content(r, "video", FALSE)) ELSE disk
                   /\ Throw(r, "write", "writeInput")
  /\ UNCHANGED << now, connected, text, page, req, srtPath, brollPath, keywords, brollVideoUrl, encoder,
                  cleanupRuns, lookups, called, degrade, outputRead, unlinkFailed >>

\* `if (srtContent) { srtPath = ...; await writeFile(srtPath, srtContent) }`
StageSrt(r, env) ==
  /\ pc[r] = "writeSrt"
  /\ LET p == SrtPathOf(uniquePrefix[r]) IN
       /\ srtPath' = [srtPath EXCEPT ![r] = p]
       /\ \E ok \in FsResults(env), left \in BOOLEAN :
            IF ok
              THEN /\ left
                   /\ disk' = WriteAt(disk, p, Content(r, "srt", TRUE))
                   /\ pc' = [pc EXCEPT ![r] = AfterStaging(req[r])]
                   /\ UNCHANGED << delivered, faults >>
              ELSE /\ disk' = IF left THEN WriteAt(disk, p, Content(r, "srt", FALSE)) ELSE disk
                   /\ Throw(r, "write", "writeSrt")
  /\ UNCHANGED << now, connected, text, page, req, uniquePrefix, inputPath, outputPath, brollPath, keywords,
                  brollVideoUrl, encoder, cleanupRuns, lookups, called, degrade, outputRead,
                  unlinkFailed >>

\* parseSrt(srtContent) and `await extractKeywordsFromTranscript(segments)`.
ExtractKeywords(r) ==
  /\ pc[r] = "brollKeywords"
  /\ \E answer \in GeminiAnswers :
       LET kws == extractKeywordsFromTranscript(parseSrt(req[r].srtContent), answer) IN
         /\ keywords' = [keywords EXCEPT ![r] = kws]
         /\ called' = [called EXCEPT ![r] = Append(@, "keywords")]
         /\ pc' = [pc EXCEPT ![r] = IF Len(kws) > 0 THEN "brollFind" ELSE "build"]
         /\ degrade' = [degrade EXCEPT ![r] =
                          IF Unusable(answer) THEN "keywordsFailed"
                          ELSE IF answer.keywords = << >> THEN "keywordsEmpty"
                          ELSE @]
  /\ UNCHANGED << now, connected, text, page, disk, delivered, req, uniquePrefix, inputPath, outputPath, srtPath,
                  brollPath, brollVideoUrl, encoder, cleanupRuns, lookups, faults,
                  outputRead, unlinkFailed >>

\* `await findBrollVideo(keywords[0])`
FindBroll(r) ==
  /\ pc[r] = "brollFind"
  /\ \E answer \in PexelsAnswers(FirstKeyword(keywords[r])) :
       LET url == findBrollVideo(FirstKeyword(keywords[r]), answer) IN
         /\ brollVideoUrl' = [brollVideoUrl EXCEPT ![r] = url]
         /\ lookups' = [lookups EXCEPT ![r] = Append(@, FirstKeyword(keywords[r]))]
         /\ called' = [called EXCEPT ![r] = Append(@, "lookup")]
         /\ pc' = [pc EXCEPT ![r] = IF url # NULL THEN "brollDownload" ELSE "build"]
         /\ degrade' = [degrade EXCEPT ![r] =
                          IF url # NULL THEN @
                          ELSE IF answer.throws THEN "lookupFailed"
                          ELSE "noClip"]
  /\ UNCHANGED << now, connected, text, page, disk, delivered, req, uniquePrefix, inputPath, outputPath, srtPath,
                  brollPath, keywords, encoder, cleanupRuns, faults, outputRead,
                  unlinkFailed >>

\* The download started and not awaited: the handler goes on with the clip.
DownloadNotAwaited(r) ==
  /\ pc[r] = "brollDownload"
  /\ disk' = WriteAt(disk, BrollPathOf(uniquePrefix[r]), Content(r, "broll", FALSE))
  /\ called' = [called EXCEPT ![r] = Append(@, "fetch")]
  /\ brollPath' = [brollPath EXCEPT ![r] = BrollPathOf(uniquePrefix[r])]
  /\ pc' = [pc EXCEPT ![r] = "build"]
  /\ UNCHANGED << now, connected, text, page, delivered, req, uniquePrefix, inputPath, outputPath, srtPath,
                  keywords, brollVideoUrl, encoder, cleanupRuns, lookups, faults, degrade,
                  outputRead, unlinkFailed >>

\* brollPath = ...; downloadFile: createWriteStream(destination) opens the file,
\* then `await axios(...)` gives the response stream or throws into the catch.
DownloadBegin(r) ==
  /\ pc[r] = "brollDownload"
  /\ LET p == BrollPathOf(uniquePrefix[r]) IN
       /\ disk' = WriteAt(disk, p, Content(r, "broll", FALSE))
       /\ called' = [called EXCEPT ![r] = Append(@, "fetch")]
       /\ \E ok \in BOOLEAN :
            IF ok
              THEN /\ brollPath' = [brollPath EXCEPT ![r] = p]
                   /\ pc' = [pc EXCEPT ![r] = "brollStream"]
                   /\ UNCHANGED degrade
              ELSE /\ brollPath' = [brollPath EXCEPT ![r] = BrollPathAfterError(p)]
                   /\ pc' = [pc EXCEPT ![r] = "build"]
                   /\ degrade' = [degrade EXCEPT ![r] = "downloadFailed"]
  /\ UNCHANGED << now, connected, text, page, delivered, req, uniquePrefix, inputPath, outputPath, srtPath,
                  keywords, brollVideoUrl, encoder, cleanupRuns, lookups, faults,
                  outputRead, unlinkFailed >>

\* writer.on('finish', resolve): the clip is on disk.
DownloadFinish(r) ==
  /\ pc[r] = "brollStream"
  /\ disk' = WriteAt(disk, brollPath[r], Content(r, "broll", TRUE))
  /\ pc' = [pc EXCEPT ![r] = "build"]
  /\ UNCHANGED << now, connected, text, page, delivered, locals, encoder, history >>

\* writer.on('error', reject): the catch of the download drops the clip.
DownloadWriterError(r) ==
  /\ pc[r] = "brollStream"
  /\ brollPath' = [brollPath EXCEPT ![r] = BrollPathAfterError(@)]
  /\ pc' = [pc EXCEPT ![r] = "build"]
  /\ degrade' = [degrade EXCEPT ![r] = "downloadFailed"]
  /\ UNCHANGED << now, connected, text, page, disk, delivered, req, uniquePrefix, inputPath, outputPath, srtPath,
                  keywords, brollVideoUrl, encoder, cleanupRuns, lookups, called, faults,
                  outputRead, unlinkFailed >>

\* The source stream stalls: axios has no timeout and the writer gets no 'end',
\* so neither 'finish' nor 'error' comes and the await never returns.
DownloadStall(r) ==
  /\ pc[r] = "brollStream"
  /\ pc' = [pc EXCEPT ![r] = "stalled"]
  /\ UNCHANGED << now, connected, text, page, disk, delivered, locals, encoder, history >>

\* The source stream fails mid-transfer: response.data.pipe(writer) does not
\* end or destroy the writer when its source errors, and no listener of the
\* source rejects, so the download has failed and the await never returns.
DownloadSourceError(r) ==
  /\ pc[r] = "brollStream"
  /\ pc' = [pc EXCEPT ![r] = "stalled"]
  /\ degrade' = [degrade EXCEPT ![r] = "downloadFailed"]
  /\ UNCHANGED << now, connected, text, page, disk, delivered, locals, encoder, cleanupRuns, lookups, called, faults,
                  outputRead, unlinkFailed >>

\* The promise executor: build the command and .save(outputPath).
StartEncoder(r) ==
  /\ pc[r] = "build"
  /\ command' = [command EXCEPT ![r] =
                   BuildCommand(inputPath[r], outputPath[r], srtPath[r], brollPath[r],
                                req[r].fontName)]
  /\ enc' = [enc EXCEPT ![r] = "spawned"]
  /\ encStarts' = [encStarts EXCEPT ![r] = @ + 1]
  /\ pc' = [pc EXCEPT ![r] = "encoding"]
  /\ UNCHANGED << now, connected, text, page, disk, delivered, locals, progress, events, history >>

\* MayEmit with events still coming after 'end' or 'error'.
MayEmitAfterEnd(r, env, after) == enc[r] # "none"

\* When the encoder may emit an event: in the order fluent-ffmpeg emits them
\* ('start', 'progress'*, then one of 'end' and 'error'), or, with
\* env.anyOrder, in any order.
MayEmit(r, env, after) ==
  IF env.anyOrder THEN enc[r] # "none" /\ events[r] < MaxEvents
  ELSE enc[r] \in after

Emitted(r, env) ==
  events' = [events EXCEPT ![r] = IF env.anyOrder THEN @ + 1 ELSE @]

\* .on('start', ...): a log line.
EncStart(r, env) ==
  /\ MayEmit(r, env, {"spawned"})
  /\ enc' = [enc EXCEPT ![r] = "started"]
  /\ Emitted(r, env)
  /\ UNCHANGED << now, connected, text, page, disk, pc, delivered, locals, command, progress, encStarts, history >>

\* A 'progress' callback that answers the caller.
EncProgressAnswers(r, env) ==
  /\ MayEmit(r, env, {"started"})
  /\ env.anyOrder \/ progress[r] < MaxProgress
  /\ progress' = [progress EXCEPT ![r] = IF env.anyOrder THEN @ ELSE @ + 1]
  /\ Emitted(r, env)
  /\ delivered' = [delivered EXCEPT ![r] = Resolve(@, EncoderErrorResponse("progress"))]
  /\ UNCHANGED << now, connected, text, page, disk, pc, locals, command, enc, encStarts, history >>

\* .on('progress', ...): a log line.
EncProgress(r, env) ==
  /\ MayEmit(r, env, {"started"})
  /\ env.anyOrder \/ progress[r] < MaxProgress
  /\ progress' = [progress EXCEPT ![r] = IF env.anyOrder THEN @ ELSE @ + 1]
  /\ Emitted(r, env)
  /\ UNCHANGED << now, connected, text, page, disk, pc, delivered, locals, command, enc, encStarts, history >>

\* What a callback of the encoder leaves behind.
Handled(r, h, injected) ==
  /\ disk' = h.disk
  /\ delivered' = [delivered EXCEPT ![r] = Resolve(@, h.resp)]
  /\ pc' = [pc EXCEPT ![r] = "done"]
  /\ cleanupRuns' = [cleanupRuns EXCEPT ![r] = @ + h.cleanup]
  /\ outputRead' = [outputRead EXCEPT ![r] = IF h.read # NoBytes THEN h.read ELSE @]
  /\ unlinkFailed' = [unlinkFailed EXCEPT ![r] =
                        IF h.failed # NULL THEN @ \cup {h.failed} ELSE @]
  /\ faults' = [faults EXCEPT ![r] = @ \cup injected]

\* .on('end', async () => ...): the encoder exited with the output written.
EncEnd(r, env) ==
  /\ MayEmit(r, env, {"started"})
  /\ enc' = [enc EXCEPT ![r] = "ended"]
  /\ Emitted(r, env)
  /\ \E wrote \in (IF env.anyOrder THEN BOOLEAN ELSE {TRUE}),
        k \in FsFaultAt(env, 1 + Len(EndPaths(inputPath[r], outputPath[r], srtPath[r],
                                              brollPath[r]))) :
       LET d == IF wrote THEN WriteAt(disk, outputPath[r], Content(r, "encoded", TRUE))
                ELSE disk
           h == OnEnd(d, inputPath[r], outputPath[r], srtPath[r], brollPath[r],
                      req[r].name, k)
       IN Handled(r, h, IF k = 1 THEN {"read"}
                        ELSE IF h.failed # NULL THEN {"unlink"} ELSE {})
  /\ UNCHANGED << now, connected, text, page, locals, command, progress, encStarts, lookups, called, degrade >>

\* .on('error', async (err) => ...): the encoder could not be spawned or exited
\* with an error; it may have written a part of the output.
EncError(r, env) ==
  /\ MayEmit(r, env, {"spawned", "started"})
  /\ enc' = [enc EXCEPT ![r] = "errored"]
  /\ Emitted(r, env)
  /\ \E wrote \in BOOLEAN, k \in FsFaultAt(env, 4) :
       LET d == IF wrote /\ outputPath[r] \notin DOMAIN disk
                  THEN WriteAt(disk, outputPath[r], Content(r, "encoded", FALSE))
                ELSE disk
           h == OnError(d, inputPath[r], outputPath[r], srtPath[r], brollPath[r],
                        "ffmpeg exited with code 1", k)
       IN Handled(r, h, IF h.failed # NULL THEN {"unlink"} ELSE {})
  /\ UNCHANGED << now, connected, text, page, locals, command, progress, encStarts, lookups, called, degrade >>

\* The caller goes away while its request is in progress. Nothing of the
\* handler reads request.signal or listens for the connection closing: the
\* request goes on as it would have.
Disconnect(r) ==
  /\ pc[r] \notin {"idle", "done"}
  /\ connected[r]
  /\ connected' = [connected EXCEPT ![r] = FALSE]
  /\ UNCHANGED << now, text, page, disk, pc, delivered, locals, encoder, history >>

(* ------------------------ the subtitle functions ----------------------- *)

\* parseSrt(payload)
Parse ==
  /\ stage = "parse"
  /\ parsed' = Append(parsed, parseSrt(payload))
  /\ stage' = IF Len(parsed) + 1 < MaxParses THEN "serialize" ELSE "end"
  /\ UNCHANGED << pipeline, page, payload, times, transcript, trailing >>

\* generateSRT(segments) of the segments parsed last.
Serialize ==
  /\ stage = "serialize"
  /\ payload' = generateSRT(parsed[Len(parsed)])
  /\ stage' = "parse"
  /\ UNCHANGED << pipeline, page, parsed, times, transcript, trailing >>

\* formatSRTTime of the timecode obtained last.
Format ==
  /\ stage = "format"
  /\ transcript = ""
  /\ trailing = << >>
  /\ Len(times) <= MaxFormats
  /\ times' = Append(times, formatSRTTime(times[Len(times)]))
  /\ UNCHANGED << pipeline, page, payload, parsed, stage, transcript, trailing >>

\* parseSrt(payload), the payload as it came.
ParseBare ==
  /\ stage = "bare"
  /\ parsed' = << parseSrt(payload) >>
  /\ stage' = "trailing"
  /\ UNCHANGED << pipeline, page, payload, times, transcript, trailing >>

\* parseSrt of the payload with the lines appended.
ParseTrailing ==
  /\ stage = "trailing"
  /\ parsed' = Append(parsed, parseSrt(AppendLines(payload, trailing)))
  /\ stage' = "compared"
  /\ UNCHANGED << pipeline, page, payload, times, transcript, trailing >>

\* extractKeywordsFromTranscript up to the prompt: the transcript of the
\* segments it was given.
BuildTranscript ==
  /\ stage = "transcript"
  /\ transcript' = Transcript(parsed[Len(parsed)])
  /\ stage' = "prompt"
  /\ UNCHANGED << pipeline, page, payload, parsed, times, trailing >>

(* ------------------------------ the page ------------------------------- *)

\* handleFileSelect up to its await: the reset, validateVideoFile, and for a
\* valid file setSelectedFile and the start of getVideoInfo and
\* createVideoThumbnail. The file input is enabled whatever is in flight.
HandleFileSelect ==
  /\ selects < MaxSelects
  /\ selects' = selects + 1
  /\ \E file \in Files :
       LET result == validateVideoFile(file) IN
         /\ validation' = [file |-> file, valid |-> result.valid, error |-> result.error]
         /\ videoInfo' = NoInfo
         /\ processedVideoUrl' = NULL
         /\ processingSteps' = << >>
         /\ transcriptionResult' = NoResult
         /\ IF ~result.valid
              THEN /\ error' = result.error
                   /\ UNCHANGED << selectedFile, loading >>
            ELSE /\ error' = NULL
                 /\ selectedFile' = file
                 /\ loading' = loading \cup {[id |-> selects + 1, file |-> file]}
  /\ UNCHANGED << pipeline, text, isTranscribing, transcribing, transcribed,
                  durationValidation, isLoading, uploading, uploaded >>

\* handleFileSelect after its await, both promises resolved: setVideoInfo(info).
VideoInfoLoaded ==
  /\ \E l \in loading :
       /\ videoInfo' = getVideoInfo(l.file)
       /\ loading' = loading \ {l}
  /\ UNCHANGED << pipeline, text, selects, selectedFile, error, transcriptionResult,
                  isTranscribing, transcribing, transcribed, validation,
                  durationValidation, server >>

\* handleFileSelect after its await, a promise rejected (the video element
\* fired 'error'): a warning is logged.
VideoInfoFailed ==
  /\ \E l \in loading : loading' = loading \ {l}
  /\ UNCHANGED << pipeline, text, selects, selectedFile, videoInfo, error,
                  transcriptionResult, isTranscribing, transcribing, transcribed,
                  validation, durationValidation, server >>

\* generateCaptions up to its await, from the button the page shows while a
\* file is selected, no error is shown and no captions exist, and enables
\* while no transcription runs.
GenerateCaptions ==
  /\ selectedFile # NoFile /\ error = NULL /\ transcriptionResult = NoResult
  /\ ~isTranscribing
  /\ videoInfo # NoInfo
  /\ Len(transcribed) < MaxCaptions
  /\ LET result == validateVideoDuration(videoInfo.duration) IN
       /\ durationValidation' = [duration |-> videoInfo.duration, valid |-> result.valid,
                                 error |-> result.error]
       /\ IF ~result.valid
            THEN /\ error' = result.error
                 /\ UNCHANGED << isTranscribing, transcribing, transcribed >>
          ELSE /\ isTranscribing' = TRUE
               /\ error' = NULL
               /\ transcribing' = transcribing \cup
                                    {[id |-> Len(transcribed) + 1, file |-> selectedFile]}
               /\ transcribed' = Append(transcribed, selectedFile)
  /\ UNCHANGED << pipeline, text, selects, selectedFile, videoInfo, transcriptionResult,
                  loading, validation, server >>

\* generateCaptions after its await, the call resolved: setTranscriptionResult.
CaptionsGenerated ==
  /\ \E job \in transcribing :
       /\ transcriptionResult' = transcribeVideoWithGemini(job.file)
       /\ transcribing' = transcribing \ {job}
  /\ isTranscribing' = FALSE
  /\ UNCHANGED << pipeline, text, selects, selectedFile, videoInfo, error, loading,
                  transcribed, validation, durationValidation, server >>

\* generateCaptions after its await, the call rejected: the catch sets the error.
CaptionsFailed ==
  /\ \E job \in transcribing : transcribing' = transcribing \ {job}
  /\ error' = "Caption generation failed"
  /\ isTranscribing' = FALSE
  /\ UNCHANGED << pipeline, text, selects, selectedFile, videoInfo, transcriptionResult,
                  loading, transcribed, validation, durationValidation, server >>

\* The state of the page the server processing leaves alone.
captioning == << selects, selectedFile, videoInfo, transcriptionResult, isTranscribing,
                loading, transcribing, transcribed, validation, durationValidation >>

\* processVideoWithServer up to its await of fetch, from the button the page
\* shows while a file is selected, no error is shown and captions exist, and
\* enables while isLoading is false.
ProcessVideoWithServer ==
  /\ selectedFile # NoFile /\ transcriptionResult # NoResult
  /\ error = NULL /\ ~isLoading
  /\ Len(uploaded) < MaxUploads
  /\ processingSteps' = updateStep(InitialSteps, "upload", "processing")
  /\ isLoading' = TRUE
  /\ uploading' = uploading \cup {[id |-> Len(uploaded) + 1, at |-> "fetch",
                                    steps |-> processingSteps]}
  /\ uploaded' = Append(uploaded, [video |-> selectedFile, captions |-> transcriptionResult])
  /\ UNCHANGED << pipeline, text, captioning, error, processedVideoUrl >>

\* fetch rejected (network error): the catch and the finally.
FetchFailed ==
  /\ \E call \in uploading :
       /\ call.at = "fetch"
       /\ processingSteps' = CatchSteps(processingSteps, call.steps)
       /\ uploading' = uploading \ {call}
  /\ isLoading' = FALSE
  /\ UNCHANGED << pipeline, text, captioning, error, processedVideoUrl, uploaded >>

\* fetch resolved: 'upload' completed, 'process' processing; a response that is
\* not ok throws into the catch, an ok one is awaited for its blob.
FetchResponded ==
  /\ \E call \in uploading, ok \in BOOLEAN :
       LET steps == updateStep(updateStep(processingSteps, "upload", "completed"),
                               "process", "processing")
       IN /\ call.at = "fetch"
          /\ IF ok
               THEN /\ processingSteps' = steps
                    /\ uploading' = (uploading \ {call}) \cup {[call EXCEPT !.at = "blob"]}
                    /\ UNCHANGED isLoading
             ELSE /\ processingSteps' = CatchSteps(steps, call.steps)
                  /\ uploading' = uploading \ {call}
                  /\ isLoading' = FALSE
  /\ UNCHANGED << pipeline, text, captioning, error, processedVideoUrl, uploaded >>

\* response.blob() settled: resolved, the processed video is kept and the
\* steps completed; rejected, the catch runs.
BlobRead ==
  /\ \E call \in uploading, ok \in BOOLEAN :
       /\ call.at = "blob"
       /\ uploading' = uploading \ {call}
       /\ IF ok
            THEN /\ processedVideoUrl' = "blob:processed"
                 /\ processingSteps' =
                      updateStep(updateStep(processingSteps, "process", "completed"),
                                 "complete", "completed")
          ELSE /\ processingSteps' = CatchSteps(processingSteps, call.steps)
               /\ UNCHANGED processedVideoUrl
  /\ isLoading' = FALSE
  /\ UNCHANGED << pipeline, text, captioning, error, uploaded >>

(* --------------------------- specifications ---------------------------- *)

Step(r, env) ==
  \/ Receive(r, env)
  \/ StageInput(r, env)
  \/ StageSrt(r, env)
  \/ ExtractKeywords(r)
  \/ FindBroll(r)
  \/ DownloadBegin(r)
  \/ DownloadFinish(r)
  \/ DownloadWriterError(r)
  \/ DownloadStall(r)
  \/ DownloadSourceError(r)
  \/ StartEncoder(r)
  \/ EncStart(r, env)
  \/ EncProgress(r, env)
  \/ EncEnd(r, env)
  \/ EncError(r, env)

\* One request, the encoder emitting its events in fluent-ffmpeg's order.
Next == Tick \/ Step(R1, Env(AllInputs, FALSE, TRUE)) \/ Disconnect(R1)

Spec == Init /\ [][Next]_vars

\* The same, every step of the request that can be taken being taken in the end.
LiveSpec == Spec /\ WF_vars(Step(R1, Env(AllInputs, FALSE, TRUE)))

\* One request, the encoder emitting any events in any order.
NextAnyEvents == Tick \/ Step(R1, Env(AllInputs, TRUE, TRUE))

SpecAnyEvents == Init /\ [][NextAnyEvents]_vars

\* Two requests in flight at once.
NextConcurrent == Tick \/ \E r \in Requests : Step(r, Env(ConcInputs, FALSE, FALSE))

SpecConcurrent == Init /\ [][NextConcurrent]_vars

\* A subtitle payload parsed, serialized again and parsed again.
InitSrt ==
  /\ NoRequest
  /\ NoPage
  /\ payload \in Payloads
  /\ parsed = << >>
  /\ stage = "parse"
  /\ times = << >>
  /\ transcript = ""
  /\ trailing = << >>

NextSrt == Parse \/ Serialize

SpecSrt == InitSrt /\ [][NextSrt]_vars

\* A timecode normalized, and normalized again.
InitTime ==
  /\ NoRequest
  /\ NoPage
  /\ payload = << >>
  /\ parsed = << >>
  /\ stage = "format"
  /\ transcript = ""
  /\ trailing = << >>
  /\ \E t \in ValidTimecodes : times = << t >>

NextTime == Format

SpecTime == InitTime /\ [][NextTime]_vars

\* A subtitle payload parsed as it came and with lines appended.
InitTrailing ==
  /\ NoRequest
  /\ NoPage
  /\ payload \in Payloads
  /\ trailing \in TrailingLines
  /\ parsed = << >>
  /\ stage = "bare"
  /\ times = << >>
  /\ transcript = ""

NextTrailing == ParseBare \/ ParseTrailing

SpecTrailing == InitTrailing /\ [][NextTrailing]_vars

\* The transcript of a segment list.
InitTranscript ==
  /\ NoRequest
  /\ NoPage
  /\ payload = << >>
  /\ \E segments \in SegmentLists : parsed = << segments >>
  /\ stage = "transcript"
  /\ times = << >>
  /\ transcript = ""
  /\ trailing = << >>

NextTranscript == BuildTranscript

SpecTranscript == InitTranscript /\ [][NextTranscript]_vars

\* The promise executor entered with any locals it can be given: a subtitle
\* file or none, a clip or none, whatever the steps before it allow.
InitBuilder ==
  /\ NoText
  /\ NoPage
  /\ now \in 0..MaxClock
  /\ connected = [r \in Requests |-> TRUE]
  /\ \E in \in {i \in AllInputs : i.file}, clip \in BOOLEAN :
       LET sPath == IF in.srtContent # NoSrt THEN SrtPathOf(now) ELSE NULL
           bPath == IF clip THEN BrollPathOf(now) ELSE NULL
           staged == WriteAt(EmptyDisk, InputPathOf(now, in.name), Content(R1, "video", TRUE))
           withSrt == IF sPath # NULL THEN WriteAt(staged, sPath, Content(R1, "srt", TRUE))
                      ELSE staged
           At(v, idle) == [r \in Requests |-> IF r = R1 THEN v ELSE idle]
       IN /\ disk = IF clip THEN WriteAt(withSrt, bPath, Content(R1, "broll", TRUE))
                    ELSE withSrt
          /\ pc = At("build", "idle")
          /\ req = At(in, NoInput)
          /\ uniquePrefix = At(now, 0)
          /\ inputPath = At(InputPathOf(now, in.name), NULL)
          /\ outputPath = At(OutputPathOf(now, in.name), NULL)
          /\ srtPath = At(sPath, NULL)
          /\ brollPath = At(bPath, NULL)
  /\ keywords = [r \in Requests |-> << >>]
  /\ brollVideoUrl = [r \in Requests |-> NULL]
  /\ command = [r \in Requests |-> NoCommand]
  /\ enc = [r \in Requests |-> "none"]
  /\ progress = [r \in Requests |-> 0]
  /\ events = [r \in Requests |-> 0]
  /\ delivered = [r \in Requests |-> << >>]
  /\ cleanupRuns = [r \in Requests |-> 0]
  /\ encStarts = [r \in Requests |-> 0]
  /\ lookups = [r \in Requests |-> << >>]
  /\ faults = [r \in Requests |-> {}]
  /\ degrade = [r \in Requests |-> ""]
  /\ outputRead = [r \in Requests |-> NoBytes]
  /\ unlinkFailed = [r \in Requests |-> {}]
  /\ called = [r \in Requests |-> << >>]

NextBuilder == StartEncoder(R1)

SpecBuilder == InitBuilder /\ [][NextBuilder]_vars

\* The page: the user choosing files and asking for captions, the calls the
\* handlers await ending in any order.
NextPage ==
  \/ HandleFileSelect
  \/ VideoInfoLoaded
  \/ VideoInfoFailed
  \/ GenerateCaptions
  \/ CaptionsGenerated
  \/ CaptionsFailed
  \/ ProcessVideoWithServer
  \/ FetchFailed
  \/ FetchResponded
  \/ BlobRead

SpecPage == Init /\ [][NextPage]_vars

(* ------------------------------- claims -------------------------------- *)

\* The request has its response.
Terminal(r) == delivered[r] # << >>

Response(r) == delivered[r][1]

\* The files on disk that request r wrote.
FilesOf(r) == {p \in DOMAIN disk : disk[p].by = r}

\* The paths request r addresses.
PathsOf(r) == {inputPath[r], outputPath[r], srtPath[r], brollPath[r]} \ {NULL}

\* The request got past staging: its video, and its subtitles if any, are written.
PassedStaging(r) ==
  pc[r] \in {"brollKeywords", "brollFind", "brollDownload", "brollStream", "stalled",
             "build", "encoding"}
  \/ (pc[r] = "done" /\ enc[r] # "none")

HasBlockWithoutArrow(srtContent) ==
  \E i \in 1..Len(srtContent) : ~srtContent[i].arrow

\* C1: once a request has its response (success or any failure), none of the
\* files it wrote (input, subtitles, B-roll clip, output) is left on disk.
C1_NoFileLeftAfterResponse ==
  \A r \in Requests : Terminal(r) => FilesOf(r) = {}

\* C2: the cleanup of a request's files runs exactly once on every exit path.
\* Stated for the requests that reached staging (the earlier exits have written
\* nothing): the unlink sequence is never entered twice, and a request that has
\* its response entered it once.
C2_CleanupExactlyOnce ==
  \A r \in Requests :
    /\ cleanupRuns[r] <= 1
    /\ (Terminal(r) /\ inputPath[r] # NULL) => cleanupRuns[r] = 1

\* C3: a delete that fails during cleanup changes nothing else: the other files
\* are still deleted, and a request whose encode succeeded and whose output was
\* read gets the success response with the bytes read.
C3_FailedDeleteIsTolerated ==
  \A r \in Requests :
    (Terminal(r) /\ enc[r] = "ended" /\ outputRead[r] # NoBytes) =>
      /\ Response(r).status = 200
      /\ Response(r).bytes = outputRead[r]
      /\ \A p \in PathsOf(r) : p \in DOMAIN disk => p \in unlinkFailed[r]

WellFormedResponse(resp) ==
  \/ resp.status = 200 /\ resp.bytes # NoBytes /\ resp.error = ""
  \/ resp.status \in {400, 500} /\ resp.bytes = NoBytes /\ resp.error # ""

\* C4: over any sequence of encoder events and file-system results the caller
\* gets at most one response, and it is either a success carrying bytes or a
\* failure carrying an error, never both.
C4_AtMostOneOutcome ==
  \A r \in Requests :
    /\ Len(delivered[r]) <= 1
    /\ \A i \in 1..Len(delivered[r]) : WellFormedResponse(delivered[r][i])

\* Both callbacks of the encoder ran to their resolve(), the 'end' one with the
\* output read, and the caller has the one success response.
C4_Witness ==
  /\ events[R1] >= 2
  /\ cleanupRuns[R1] >= 2
  /\ Len(delivered[R1]) = 1
  /\ Response(R1).status = 200

\* C5: every request gets its response in the end (the encoder emitting 'end' or
\* 'error' in the end, every B-roll network step being bounded by a timeout).
C5_EveryRequestTerminates == <>Terminal(R1)

\* C6: two distinct requests never address the same file: their paths (input,
\* subtitles, B-roll clip, output) are disjoint.
C6_RequestsAddressDisjointPaths ==
  \A r1, r2 \in Requests : r1 # r2 => PathsOf(r1) \cap PathsOf(r2) = {}

NoBrollIn(cmd) ==
  /\ Len(cmd.inputs) = 1
  /\ \A i \in 1..Len(cmd.complexFilter) : cmd.complexFilter[i].kind \notin {"scale", "overlay"}

\* C7: when keyword extraction returns nothing or fails, or the clip lookup
\* finds nothing or fails, or the clip download fails, no B-roll clip is used
\* (no second encoder input, no overlay stage) and the request still ends with
\* the success response (the encoder ending and no file-system call failing).
C7_GracefulBrollDegradation ==
  /\ []((degrade[R1] # "" /\ enc[R1] # "none") => NoBrollIn(command[R1]))
  /\ []((degrade[R1] # "" /\ Terminal(R1) /\ enc[R1] = "ended" /\ faults[R1] = {}) =>
          Response(R1).status = 200)
  /\ (degrade[R1] # "" ~> Terminal(R1))

SuccessOnlyAfterRead(r) ==
  Response(r).status = 200 =>
    /\ enc[r] = "ended"
    /\ outputRead[r] # NoBytes
    /\ Response(r).bytes = outputRead[r]

\* C8 as stated: a failure response has status 400 exactly when the 'video'
\* field is missing and status 500 for every other failure; a 200 response comes
\* only after the encoder ended and the output was read, and carries its bytes.
C8_StatusAsStated ==
  \A r \in Requests :
    Terminal(r) =>
      /\ Response(r).status \in {200, 400, 500}
      /\ Response(r).status # 200 => (Response(r).status = 400 <=> ~req[r].file)
      /\ SuccessOnlyAfterRead(r)

\* C8 as amended: a failure response has status 400 exactly when the 'video'
\* field is missing and nothing before the check of the field threw; every
\* other failure has status 500; a 200 response comes only after the encoder
\* ended and the output was read, and carries its bytes.
C8_StatusByCause ==
  \A r \in Requests :
    Terminal(r) =>
      /\ Response(r).status \in {200, 400, 500}
      /\ Response(r).status # 200 =>
           (Response(r).status = 400 <=> (~req[r].file /\ "dirs" \notin faults[r]))
      /\ SuccessOnlyAfterRead(r)

\* A request without the 'video' field whose directory set-up threw: status 500.
C8_Witness ==
  /\ Terminal(R1)
  /\ ~req[R1].file
  /\ "dirs" \in faults[R1]
  /\ Response(R1).status = 500

\* C9: a request whose subtitle text has a block without the "-->" separator
\* fails before the encoder: the encoder is never started for it and it gets no
\* success response (no output bytes). That its files are released is C1.
C9_MalformedSubtitleRejected ==
  \A r \in Requests :
    HasBlockWithoutArrow(req[r].srtContent) =>
      /\ encStarts[r] = 0
      /\ Terminal(r) => Response(r).status # 200

\* C10: the encoder is started at most once per request and never again after it
\* reported an error; a request that passes staging starts it exactly once; a
\* request rejected for a missing video starts it zero times.
C10_EncoderStartedExactlyOnce ==
  /\ [](encStarts[R1] <= 1)
  /\ [][enc[R1] = "errored" => encStarts'[R1] = encStarts[R1]]_vars
  /\ []((Terminal(R1) /\ Response(R1).status = 400) => encStarts[R1] = 0)
  /\ (PassedStaging(R1) ~> encStarts[R1] = 1)

SubtitleStages(cmd) ==
  {i \in 1..Len(cmd.complexFilter) : cmd.complexFilter[i].kind = "subtitles"}

\* C11: for a fontName that is not a key of the font registry the subtitles are
\* burnt with the default font (Roboto), and the request still gets the success
\* response (the encoder ending and no file-system call failing).
C11_UnknownFontFallsBack ==
  \A r \in Requests :
    (enc[r] # "none" /\ srtPath[r] # NULL /\ req[r].fontName \notin DOMAIN fontMap) =>
      /\ \A i \in SubtitleStages(command[r]) :
           command[r].complexFilter[i].filter = SubtitlesFilter(srtPath[r], "Roboto")
      /\ (Terminal(r) /\ enc[r] = "ended" /\ faults[r] = {}) => Response(r).status = 200

\* C12: when a B-roll clip and subtitles are both present, the filter graph has
\* an overlay stage and a subtitle stage, every subtitle stage comes after the
\* overlay stage and reads its output, and the mapped output is the subtitle
\* stage's.
C12_OverlayBeforeSubtitles ==
  \A r \in Requests :
    (enc[r] # "none" /\ brollPath[r] # NULL /\ srtPath[r] # NULL) =>
      LET cf == command[r].complexFilter IN
        \E i \in 1..Len(cf) :
          /\ cf[i].kind = "overlay"
          /\ SubtitleStages(command[r]) # {}
          /\ \A j \in SubtitleStages(command[r]) :
               /\ i < j
               /\ cf[j].ins = << cf[i].out >>
               /\ command[r].map = StripBrackets(cf[j].out)

\* A command built with the downloaded clip and the subtitles.
C12_Witness ==
  /\ enc[R1] = "started"
  /\ brollPath[R1] # NULL
  /\ srtPath[R1] # NULL
  /\ Len(command[R1].inputs) = 2
  /\ Len(command[R1].complexFilter) = 3

BrollRequested(in) == in.addBroll = "true" /\ in.srtContent # NoSrt

InBrollStep(r) ==
  pc[r] \in {"brollKeywords", "brollFind", "brollDownload", "brollStream", "stalled"}

\* C13: the B-roll step is entered, and a collaborator called, only when
\* addBroll is exactly "true" and the subtitle text is not empty; otherwise the
\* request goes from staging to the encode with no collaborator called, and the
\* skipping fails nothing.
C13_BrollOnlyWhenRequested ==
  \A r \in Requests :
    /\ (InBrollStep(r) \/ called[r] # << >>) => BrollRequested(req[r])
    /\ (PassedStaging(r) /\ ~BrollRequested(req[r])) =>
         /\ called[r] = << >>
         /\ degrade[r] = ""
         /\ pc[r] \in {"build", "encoding", "done"}
         /\ (Terminal(r) /\ enc[r] = "ended" /\ faults[r] = {}) => Response(r).status = 200

\* A request with subtitles whose addBroll is "TRUE" got its video with no
\* collaborator called.
C13_Witness ==
  /\ req[R1].addBroll = "TRUE"
  /\ req[R1].srtContent # NoSrt
  /\ Terminal(R1)
  /\ Response(R1).status = 200
  /\ called[R1] = << >>

\* The state of a request's life cycle, read from what the request has done.
Phase(r) ==
  IF Terminal(r) THEN (IF Response(r).status = 200 THEN "Delivered" ELSE "Failed")
  ELSE IF pc[r] \in {"idle", "staging", "writeSrt"} THEN "Received"
  ELSE IF pc[r] = "encoding" THEN "SpecBuilt"
  ELSE IF pc[r] = "build" /\ called[r] # << >> THEN "BrollResolved"
  ELSE "AssetsStaged"

PhaseOrder ==
  { << "Received", "AssetsStaged" >>, << "AssetsStaged", "BrollResolved" >>,
    << "AssetsStaged", "SpecBuilt" >>, << "BrollResolved", "SpecBuilt" >>,
    << "SpecBuilt", "Delivered" >> }

\* C14: a request goes through Received, AssetsStaged, optionally
\* BrollResolved, SpecBuilt, Encoded (the encoder's 'end', inside the step that
\* delivers), Delivered in this order; Failed is entered from any state that is
\* not terminal; once Delivered or Failed nothing of the request changes: no
\* transition, no file written or deleted, no encoder activity.
C14_LifeCycleOrder ==
  [][\A r \in Requests :
       /\ \/ Phase(r)' = Phase(r)
          \/ << Phase(r), Phase(r)' >> \in PhaseOrder
          \/ Phase(r)' = "Failed" /\ Phase(r) \notin {"Delivered", "Failed"}
       /\ (Phase(r)' = "Delivered" /\ Phase(r) # "Delivered") => enc'[r] = "ended"
       /\ Terminal(r) => UNCHANGED << disk, pc, delivered, locals, encoder, history >>]_vars

\* A request that went through the B-roll step and every later state.
C14_Witness ==
  /\ Phase(R1) = "Delivered"
  /\ called[R1] # << >>
  /\ enc[R1] = "ended"

DigitValue(c) == CHOOSE n \in 0..9 : ToString(n) = c

\* The time of a timecode HH:MM:SS or HH:MM:SS,mmm in milliseconds.
Millis(t) ==
  ((DigitValue(t[1]) * 10 + DigitValue(t[2])) * 3600
     + (DigitValue(t[4]) * 10 + DigitValue(t[5])) * 60
     + (DigitValue(t[7]) * 10 + DigitValue(t[8]))) * 1000
  + (IF Len(t) = 12
       THEN DigitValue(t[10]) * 100 + DigitValue(t[11]) * 10 + DigitValue(t[12])
       ELSE 0)

\* A block without a timecode line, or whose start is not before its end.
MalformedBlock(b) == ~b.arrow \/ ~(Millis(b.start) < Millis(b.end))

\* C15: a payload with a block that has no timecode line, or whose timecode
\* pair is unordered, is refused by the parser: it never gets a segment list
\* (the block dropped or accepted).
C15_MalformedPayloadRefused ==
  (Len(parsed) = 1 /\ stage = "serialize") =>
    ~(\E i \in 1..Len(payload) : MalformedBlock(payload[i]))

\* C16: every segment list the parser returns is non-decreasing in start time,
\* and each of its segments starts before it ends.
C16_SegmentsOrdered ==
  \A k \in 1..Len(parsed) :
    LET segs == parsed[k] IN
      /\ \A i \in 1..Len(segs) : Millis(segs[i].start_time) < Millis(segs[i].end_time)
      /\ \A i, j \in 1..Len(segs) :
           i < j => Millis(segs[i].start_time) <= Millis(segs[j].start_time)

SameSegments(a, b) ==
  /\ Len(a) = Len(b)
  /\ \A i \in 1..Len(a) :
       /\ a[i].start_time = b[i].start_time
       /\ a[i].end_time = b[i].end_time
       /\ a[i].text = b[i].text

\* C17: the segments the parser returned, serialized by generateSRT and parsed
\* again, are the same segments: same count, same start, end and text.
C17_ParserRoundTrip ==
  \A k \in 2..Len(parsed) : SameSegments(parsed[k - 1], parsed[k])

\* Two segments, one with a text of two lines, parsed, serialized, parsed again.
C17_Witness ==
  /\ Len(parsed) = 2
  /\ Len(parsed[1]) = 2
  /\ parsed[1][1].text = "sun set"
  /\ parsed[2][2].id = 2

\* C18: formatSRTTime gives the form HH:MM:SS,mmm for a timecode HH:MM:SS (the
\* same hours, minutes and seconds) and for a timecode HH:MM:SS,mmm (itself),
\* and applying it again changes nothing.
C18_NormalizeCanonicalIdempotent ==
  /\ \A i \in 2..Len(times) :
       /\ MatchesTimecode(times[i])
       /\ SubSeq(times[i], 1, 8) = SubSeq(times[1], 1, 8)
       /\ MatchesTimecode(times[1]) => times[i] = times[1]
  /\ \A i \in 3..Len(times) : times[i] = times[i - 1]

\* A timecode without milliseconds normalized twice.
C18_Witness ==
  /\ Len(times) = 3
  /\ Len(times[1]) = 8
  /\ Len(times[3]) = 12

FetchAttempts(r) == Cardinality({i \in 1..Len(called[r]) : called[r][i] = "fetch"})

\* C19: the fetch of a clip that was found is tried again when it fails: the
\* request goes on without B-roll for a failed download only after more than
\* one attempt.
C19_FetchRetriedBeforeDegrading ==
  \A r \in Requests : degrade[r] = "downloadFailed" => FetchAttempts(r) > 1

\* C20: when the caller has gone away while the request was in progress, the
\* cleanup of the request is run in the end and none of its files is left.
C20_CleanupAfterDisconnect ==
  ~connected[R1] ~> (cleanupRuns[R1] >= 1 /\ FilesOf(R1) = {})

\* The characters of a 'fontName' value.
Characters(value) == CHOOSE cs \in FontNames : Text(cs) = value

\* The value holds a character the filter grammar reserves (colon, backslash).
HasReserved(value) ==
  \E i \in 1..Len(Characters(value)) : Characters(value)[i] \in {":", "\\"}

\* C21: the encoder is never started with a filter description that holds a
\* request-controlled value with a reserved character (colon, backslash) left
\* unescaped: for a fontName holding one, the subtitle filter is never the
\* filter with the name inserted as it came.
C21_FilterValuesEscaped ==
  \A r \in Requests :
    (enc[r] # "none" /\ srtPath[r] # NULL /\ HasReserved(req[r].fontName)) =>
      \A i \in SubtitleStages(command[r]) :
        command[r].complexFilter[i].filter # SubtitlesFilter(srtPath[r], req[r].fontName)

\* C22: when the keyword service throws or gives an unusable answer the
\* keyword list is empty, when the clip search throws or gives no usable video
\* the clip URL is null, and the request is not failed by either: it goes on
\* to the encoder.
C22_CollaboratorFailuresAbsorbed ==
  \A r \in Requests :
    /\ degrade[r] = "keywordsFailed" => keywords[r] = << >>
    /\ degrade[r] \in {"lookupFailed", "noClip"} => brollVideoUrl[r] = NULL
    /\ degrade[r] \in {"keywordsFailed", "lookupFailed", "noClip"} =>
         /\ pc[r] \in {"build", "encoding", "done"}
         /\ brollPath[r] = NULL
         /\ Terminal(r) => enc[r] # "none"

\* The keyword call failed, or the clip search threw, and the request got its
\* video without a clip.
C22_Witness ==
  /\ degrade[R1] = "lookupFailed"
  /\ Len(keywords[R1]) = 2
  /\ Terminal(R1)
  /\ Response(R1).status = 200

\* The output options copy the stream the option names ("-c:v", "-c:a").
StreamCopied(cmd, codecOption) ==
  \E i \in 1..(Len(cmd.outputOptions) - 1) :
    cmd.outputOptions[i] = codecOption /\ cmd.outputOptions[i + 1] = "copy"

\* C24: for a request with neither subtitles nor a B-roll clip the encoder is
\* invoked with no filter graph and with output options that re-encode the
\* video stream and the audio stream: neither is copied.
C24_PlainRequestReencodesBoth ==
  \A r \in Requests :
    (enc[r] # "none" /\ srtPath[r] = NULL /\ brollPath[r] = NULL) =>
      /\ command[r].complexFilter = << >>
      /\ command[r].map = ""
      /\ ~StreamCopied(command[r], "-c:v")
      /\ ~StreamCopied(command[r], "-c:a")

\* A clip is present only together with a subtitle file.
ClipImpliesSubtitles(r) == brollPath[r] # NULL => srtPath[r] # NULL

C26_OneLookupWithFirstKeyword ==
  \A r \in Requests :
    /\ Len(lookups[r]) <= 1
    /\ lookups[r] # << >> => (keywords[r] # << >> /\ lookups[r] = << keywords[r][1] >>)
    /\ degrade[r] \in {"noClip", "lookupFailed"} =>
         /\ Len(lookups[r]) = 1
         /\ brollPath[r] = NULL
         /\ enc[r] # "none" => NoBrollIn(command[r])

\* Two keywords, one search with the first, no clip found, the video delivered.
C26_Witness ==
  /\ Len(keywords[R1]) = 2
  /\ lookups[R1] = << keywords[R1][1] >>
  /\ degrade[R1] = "noClip"
  /\ Terminal(R1)
  /\ Response(R1).status = 200

\* The stage at which a failed request failed.
FailedStage(r) ==
  IF "dirs" \in faults[r] THEN "Received"
  ELSE IF faults[r] \cap {"writeInput", "writeSrt"} # {} THEN "Staging"
  ELSE IF enc[r] = "errored" THEN "Encode"
  ELSE IF enc[r] = "ended" THEN "Deliver"
  ELSE "Received"

\* The stage the fixed text of a failure response stands for, 'Server error'
\* being read as the label of a staging failure.
StageNamed(resp) ==
  IF resp = MissingFileResponse THEN "Received"
  ELSE IF resp = ReadFailedResponse THEN "Deliver"
  ELSE IF resp = EncoderErrorResponse("ffmpeg exited with code 1") THEN "Encode"
  ELSE IF \E msg \in {"mkdir", "write"} : resp = ServerErrorResponse(msg) THEN "Staging"
  ELSE "none"

\* C27: the failure reported names the stage at which the request failed: an
\* encoder error is an Encode failure with the encoder's diagnostic, a failed
\* write of the video or the subtitles is a Staging failure, and no label
\* stands for failures at two stages.
C27_FailureNamesItsStage ==
  \A r \in Requests :
    (Terminal(r) /\ Response(r).status # 200) =>
      /\ StageNamed(Response(r)) = FailedStage(r)
      /\ enc[r] = "errored" => Response(r) = EncoderErrorResponse("ffmpeg exited with code 1")

\* C28: a success response is produced only after the output file was read
\* whole, and carries the bytes read; the output file is never deleted by the
\* 'end' handler before it was read.
C28_OutputReadBeforeDeleted ==
  \A r \in Requests :
    /\ (Terminal(r) /\ Response(r).status = 200) =>
         /\ outputRead[r] = Content(r, "encoded", TRUE)
         /\ Response(r).bytes = outputRead[r]
    /\ (enc[r] = "ended" /\ outputPath[r] \notin DOMAIN disk) => outputRead[r] # NoBytes

\* The encoder ended, the output was read and deleted, the bytes were sent.
C28_Witness ==
  /\ Terminal(R1)
  /\ Response(R1).status = 200
  /\ Response(R1).bytes = Content(R1, "encoded", TRUE)
  /\ outputPath[R1] \notin DOMAIN disk

\* C29: a request whose video or subtitle write failed has its failure
\* response, and no collaborator was called and no encoder started for it.
C29_StagingFailureStopsRequest ==
  \A r \in Requests :
    faults[r] \cap {"writeInput", "writeSrt"} # {} =>
      /\ Terminal(r)
      /\ Response(r).status = 500
      /\ called[r] = << >>
      /\ lookups[r] = << >>
      /\ encStarts[r] = 0
      /\ enc[r] = "none"
      /\ command[r] = NoCommand

\* The subtitle write of a request that asked for B-roll failed.
C29_Witness ==
  /\ "writeSrt" \in faults[R1]
  /\ req[R1].addBroll = "true"
  /\ Terminal(R1)

\* C30: the handling of a 'start' or a 'progress' event leaves the paths, the
\* files on disk, the pending response and the cleanup of the request as they
\* were.
C30_StartAndProgressChangeNothing ==
  [][\A r \in Requests :
       ((enc[r] = "spawned" /\ enc'[r] = "started") \/ progress'[r] # progress[r]) =>
         UNCHANGED << disk, pc, delivered, locals, command, cleanupRuns, outputRead,
                      unlinkFailed, faults >>]_vars

\* A 'progress' event was handled and the request is still in progress, its
\* video on disk.
C30_Witness ==
  /\ progress[R1] > 0
  /\ enc[R1] = "started"
  /\ ~Terminal(R1)
  /\ inputPath[R1] \in DOMAIN disk

\* C23: validateVideoFile accepts a file exactly when its type is listed and its
\* size is at most 1024^3 bytes, validateVideoDuration accepts a duration
\* exactly when it is at most 1800 seconds, and caption generation is never
\* started for a video longer than 1800 seconds.
C23_UploadGate ==
  /\ validation # NoValidation =>
       (validation.valid <=>
          (validation.file.type \in allowedTypes /\ validation.file.size <= 1073741824))
  /\ durationValidation # NoDurationValidation =>
       (durationValidation.valid <=> durationValidation.duration <= 1800)
  /\ \A i \in 1..Len(transcribed) : transcribed[i].duration <= 1800

\* The texts of the segments with one space between two of them, from the left.
RECURSIVE JoinedUpTo(_, _)
JoinedUpTo(segments, n) ==
  IF n = 0 THEN ""
  ELSE IF n = 1 THEN segments[1].text
  ELSE JoinedUpTo(segments, n - 1) \o " " \o segments[n].text

\* The length of the texts of the segments and of the spaces between them.
RECURSIVE JoinedLength(_)
JoinedLength(segments) ==
  IF segments = << >> THEN 0
  ELSE Len(Head(segments).text) + (IF Len(segments) > 1 THEN 1 ELSE 0)
         + JoinedLength(Tail(segments))

\* C31: the transcript sent to the keyword extraction has the length
\* min(length of the caption texts joined by single spaces, 4000) and is a
\* prefix of the joined text.
C31_TranscriptJoinedAndCut ==
  stage = "prompt" =>
    LET segments == parsed[1]
        joined == JoinedUpTo(segments, Len(segments))
        length == IF JoinedLength(segments) < 4000 THEN JoinedLength(segments) ELSE 4000
    IN /\ Len(transcript) = length
       /\ transcript = (IF length = 0 THEN "" ELSE SubSeq(joined, 1, length))

\* Two captions whose joined text is one character over the budget, cut.
C31_Witness ==
  /\ stage = "prompt"
  /\ Len(parsed[1]) = 2
  /\ JoinedLength(parsed[1]) = 4001
  /\ Len(transcript) = 4000

\* The stages of the kind in the filter graph of a command.
StagesOf(cmd, kind) == {i \in 1..Len(cmd.complexFilter) : cmd.complexFilter[i].kind = kind}

\* C32: when a B-roll clip is used, the clip is scaled to the frame width and
\* height of the uploaded video, whatever they are, and the overlay is enabled
\* only from second 5 to second 10.
C32_ClipScaledToMainVideo ==
  \A r \in Requests :
    (enc[r] # "none" /\ brollPath[r] # NULL) =>
      LET cf == command[r].complexFilter
          frame == FrameOf(req[r].name)
      IN /\ StagesOf(command[r], "scale") # {}
         /\ \A i \in StagesOf(command[r], "scale") :
              cf[i].filter = "scale=" \o ToString(frame.width) \o ":"
                               \o ToString(frame.height) \o ",setsar=1"
         /\ StagesOf(command[r], "overlay") # {}
         /\ \A i \in StagesOf(command[r], "overlay") :
              cf[i].filter = "overlay=0:0:enable='between(t,5,10)'"

\* C34: a file at the B-roll path of a request is tracked by the request:
\* brollPath is set to it, so that cleanup addresses it.
C34_ClipFileIsTracked ==
  \A r \in Requests :
    (pc[r] # "idle" /\ BrollPathOf(uniquePrefix[r]) \in DOMAIN disk) =>
      brollPath[r] = BrollPathOf(uniquePrefix[r])

\* C33: empty lines and lines of white space appended after the last block of a
\* payload leave the parsed segments as they were (same count, times and text),
\* and the text lines of a block are joined with exactly one space.
C33_TrailingWhitespaceTolerated ==
  /\ stage = "compared" => SameSegments(parsed[1], parsed[2])
  /\ (stage # "bare" /\ Len(parsed[1]) = Len(payload)) =>
       \A i \in 1..Len(payload) :
         parsed[1][i].text =
           (IF Len(payload[i].text) = 1 THEN payload[i].text[1]
            ELSE payload[i].text[1] \o " " \o payload[i].text[2])

\* The files the encoder reads for a command: its inputs and, with a subtitle
\* stage, the subtitle file.
FilesRead(r) ==
  {command[r].inputs[i] : i \in 1..Len(command[r].inputs)}
    \cup (IF SubtitleStages(command[r]) # {} THEN {srtPath[r]} ELSE {})

C36_FilterChainWellFormed ==
  \A r \in Requests :
    enc[r] # "none" =>
      LET cmd == command[r]
          cf == cmd.complexFilter
      IN /\ \A i \in 1..Len(cf) : \A k \in 1..Len(cf[i].ins) :
              /\ cf[i].ins[k] = "[1:v]" => (Len(cmd.inputs) = 2 /\ brollPath[r] # NULL)
              /\ \/ cf[i].ins[k] \in {"[0:v]", "[1:v]"}
                 \/ i > 1 /\ cf[i].ins[k] = cf[i - 1].out
         /\ Len(cf) > 0 => "[" \o cmd.map \o "]" = cf[Len(cf)].out
         /\ cmd.map # "" <=> Len(cf) > 0

\* A request delivered from a command of three stages mapped to the last.
C36_Witness ==
  /\ Terminal(R1)
  /\ Response(R1).status = 200
  /\ Len(command[R1].complexFilter) = 3
  /\ command[R1].map = "video_final"

\* C37: the captions the page holds were produced from the file it has
\* selected, and every form sent to the server carries a video with the
\* captions of that video.
C37_CaptionsOfSelectedFile ==
  /\ transcriptionResult # NoResult => transcriptionResult.of = selectedFile
  /\ \A i \in 1..Len(uploaded) : uploaded[i].captions.of = uploaded[i].video

\* C38: whenever isLoading is false no processing step has the status
\* 'processing': a failed server processing (fetch rejected, response not ok)
\* has set the step that was processing to 'error'.
C38_NoStepLeftProcessing ==
  ~isLoading => \A i \in 1..Len(processingSteps) : processingSteps[i].status # "processing"

\* Request r has written no file, called no collaborator and started no encoder.
NoEffect(r) ==
  /\ FilesOf(r) = {}
  /\ PathsOf(r) = {}
  /\ called[r] = << >>
  /\ lookups[r] = << >>
  /\ encStarts[r] = 0
  /\ enc[r] = "none"
  /\ command[r] = NoCommand
  /\ cleanupRuns[r] = 0

\* C39 as stated: a request without the 'video' field has its 400 response and
\* no other effect: no file written, no collaborator called, no encoder started.
C39_NoEffectBeyond400 ==
  \A r \in Requests :
    (pc[r] # "idle" /\ ~req[r].file) =>
      /\ Terminal(r)
      /\ Response(r).status = 400
      /\ NoEffect(r)

\* C39 as amended: a request without the 'video' field has its failure
\* response, 400 unless something before the check of the field threw and 500
\* then, and no other effect: no file written, no collaborator called, no
\* encoder started.
C39_NoEffectWithoutVideo ==
  \A r \in Requests :
    (pc[r] # "idle" /\ ~req[r].file) =>
      /\ Terminal(r)
      /\ Response(r).status = (IF "dirs" \in faults[r] THEN 500 ELSE 400)
      /\ NoEffect(r)

\* A request that asks for subtitles and B-roll and carries no video: 400 and
\* an empty disk.
C39_Witness ==
  /\ ~req[R1].file
  /\ req[R1].srtContent # NoSrt
  /\ req[R1].addBroll = "true"
  /\ Terminal(R1)
  /\ Response(R1) = MissingFileResponse
  /\ disk = EmptyDisk

====
